---- MODULE Spec2Model ----
(***************************************************************************)
(* Model of the Web Audit screenshot API server (src/server.js): an        *)
(* express application that stores uploaded screenshots in the uploads     *)
(* directory (multipart via multer.diskStorage, base64 via JSON) and       *)
(* serves them back under /uploads.                                        *)
(*                                                                         *)
(* Strings that the code parses or builds (image data URLs, filenames,     *)
(* urls, MIME types) are sequences of one-character strings, so that the   *)
(* regular expression, the base64 decoder, path.join and the template      *)
(* literals are computed character by character.  Strings the code only    *)
(* copies (error texts) are plain TLA+ strings.                            *)
(***************************************************************************)
EXTENDS Integers, Sequences, FiniteSets, TLC

\* ------------------------------------------------------------------------
\* Bounds of the model
\* ------------------------------------------------------------------------

\* Number of requests the server handles in one behaviour.
MaxReqs == 2

\* Largest value of the millisecond clock Date.now() (it starts at 0).
MaxTime == 1

\* ------------------------------------------------------------------------
\* Character strings
\* ------------------------------------------------------------------------

StartsWith(s, p) ==
    /\ Len(p) <= Len(s)
    /\ SubSeq(s, 1, Len(p)) = p

DropFirst(s, n) == SubSeq(s, n + 1, Len(s))

Digit(d) == <<"0", "1", "2", "3", "4", "5", "6", "7", "8", "9">>[d + 1]

\* Number -> decimal string, as a template literal `${n}` formats it.
RECURSIVE Decimal(_)
Decimal(n) == IF n < 10 THEN <<Digit(n)>>
              ELSE Decimal(n \div 10) \o <<Digit(n % 10)>>

\* str.split(sep) for a one-character separator.
RECURSIVE Split(_, _)
Split(s, sep) ==
    IF \A i \in 1..Len(s) : s[i] # sep THEN <<s>>
    ELSE LET k == CHOOSE i \in 1..Len(s) :
                      /\ s[i] = sep
                      /\ \A j \in 1..(i - 1) : s[j] # sep
         IN  <<SubSeq(s, 1, k - 1)>> \o Split(DropFirst(s, k), sep)

\* ------------------------------------------------------------------------
\* Buffer.from(str, 'base64'), as fs.writeFileSync(path, str, 'base64') uses it
\* ------------------------------------------------------------------------

B64Alphabet ==
    <<"A", "B", "C", "D", "E", "F", "G", "H", "I", "J", "K", "L", "M",
      "N", "O", "P", "Q", "R", "S", "T", "U", "V", "W", "X", "Y", "Z",
      "a", "b", "c", "d", "e", "f", "g", "h", "i", "j", "k", "l", "m",
      "n", "o", "p", "q", "r", "s", "t", "u", "v", "w", "x", "y", "z",
      "0", "1", "2", "3", "4", "5", "6", "7", "8", "9", "+", "/">>

\* Characters the decoder accepts: the alphabet and the url-safe '-' and '_'.
IsB64Char(c) == \/ \E i \in 1..64 : B64Alphabet[i] = c
                \/ c \in {"-", "_"}

Unbase64(c) == IF c = "-" THEN 62
               ELSE IF c = "_" THEN 63
               ELSE (CHOOSE i \in 1..64 : B64Alphabet[i] = c) - 1

\* The decoder reads up to the first '=' and skips every character that is
\* not a base64 character.
RECURSIVE B64Sextets(_)
B64Sextets(s) ==
    IF s = <<>> \/ Head(s) = "=" THEN <<>>
    ELSE IF IsB64Char(Head(s)) THEN <<Unbase64(Head(s))>> \o B64Sextets(Tail(s))
    ELSE B64Sextets(Tail(s))

\* Four sextets make three bytes; a trailing group of two makes one byte, of
\* three two bytes, and a single trailing sextet makes none.
RECURSIVE B64Bytes(_)
B64Bytes(q) ==
    IF Len(q) < 2 THEN <<>>
    ELSE LET b1 == (q[1] * 4 + q[2] \div 16) % 256
         IN  IF Len(q) = 2 THEN <<b1>>
             ELSE LET b2 == ((q[2] % 16) * 16 + q[3] \div 4) % 256
                  IN  IF Len(q) = 3 THEN <<b1, b2>>
                      ELSE <<b1, b2, ((q[3] % 4) * 64 + q[4]) % 256>>
                               \o B64Bytes(DropFirst(q, 4))

Base64Decode(s) == B64Bytes(B64Sextets(s))

\* ------------------------------------------------------------------------
\* image.replace(/^data:image\/[a-z]+;base64,/, '')
\* ------------------------------------------------------------------------

LowerAZ == {"a", "b", "c", "d", "e", "f", "g", "h", "i", "j", "k", "l", "m",
            "n", "o", "p", "q", "r", "s", "t", "u", "v", "w", "x", "y", "z"}

DataImage == <<"d", "a", "t", "a", ":", "i", "m", "a", "g", "e", "/">>

Base64Comma == <<";", "b", "a", "s", "e", "6", "4", ",">>

\* Length of the longest run of [a-z] at the start of s.
RECURSIVE LowerRun(_)
LowerRun(s) == IF s # <<>> /\ Head(s) \in LowerAZ THEN 1 + LowerRun(Tail(s))
               ELSE 0

\* Length of the match of the regular expression at the start of the image
\* (0: no match).  ';' is not in [a-z], so the greedy run is the only
\* candidate for [a-z]+.
DataUrlMatch(image) ==
    IF ~StartsWith(image, DataImage) THEN 0
    ELSE LET rest == DropFirst(image, Len(DataImage))
             k    == LowerRun(rest)
         IN  IF k >= 1 /\ StartsWith(DropFirst(rest, k), Base64Comma)
             THEN Len(DataImage) + k + Len(Base64Comma)
             ELSE 0

\* The result of replace() dropped: the image is decoded as it came.
StripDataUrl_Unstripped(image) == image

StripDataUrl(image) == DropFirst(image, DataUrlMatch(image))

\* ------------------------------------------------------------------------
\* Paths and the file system
\* ------------------------------------------------------------------------

\* path.normalize on the segments of an absolute path: '' and '.' are
\* dropped, '..' removes the segment before it (and stays at the root).
RECURSIVE NormalizeOnto(_, _)
NormalizeOnto(stack, segs) ==
    IF segs = <<>> THEN stack
    ELSE LET g == Head(segs)
         IN  IF g = <<>> \/ g = <<".">> THEN NormalizeOnto(stack, Tail(segs))
             ELSE IF g = <<".", ".">>
                  THEN NormalizeOnto(IF stack = <<>> THEN <<>>
                                     ELSE SubSeq(stack, 1, Len(stack) - 1),
                                     Tail(segs))
                  ELSE NormalizeOnto(Append(stack, g), Tail(segs))

\* path.join(dir, name): dir + '/' + name, normalized.  A path is the
\* sequence of its segments from the root.
PathJoin(dir, name) == NormalizeOnto(dir, Split(name, "/"))

\* __dirname, the directory that holds server.js.
Dirname == << <<"s", "r", "v">> >>

uploadsDir == PathJoin(Dirname, <<"u", "p", "l", "o", "a", "d", "s">>)

\* The directories that exist: the root, __dirname and the uploads directory
\* made at startup.  No request makes a directory.
Dirs == {<<>>, Dirname, uploadsDir}

Parent(path) == SubSeq(path, 1, Len(path) - 1)

\* Whether a path is a direct child of the storage root.
InUploadsDir(path) == /\ Len(path) = Len(uploadsDir) + 1
                      /\ Parent(path) = uploadsDir

\* A file's bytes: `bytes` followed by `fill` zero bytes (long files are not
\* spelled out byte by byte).
Content(bytes, fill) == [bytes |-> bytes, fill |-> fill]

EmptyContent == Content(<<>>, 0)

ByteLength(c) == Len(c.bytes) + c.fill

\* The first n bytes of a content.
Truncate(c, n) == IF ByteLength(c) <= n THEN c
                  ELSE IF Len(c.bytes) >= n THEN Content(SubSeq(c.bytes, 1, n), 0)
                  ELSE Content(c.bytes, n - Len(c.bytes))

\* Opening a path for writing fails when it is a directory (EISDIR) or when
\* its directory does not exist (ENOENT).
WriteError(path) == IF path \in Dirs THEN "EISDIR"
                    ELSE IF Parent(path) \notin Dirs THEN "ENOENT"
                    ELSE ""

\* The file system after path holds data.
WriteFile(fsys, path, data) ==
    [p \in (DOMAIN fsys) \cup {path} |-> IF p = path THEN data ELSE fsys[p]]

\* fs.unlink(path).
Unlink(fsys, path) == [p \in (DOMAIN fsys) \ {path} |-> fsys[p]]

\* ------------------------------------------------------------------------
\* Responses
\* ------------------------------------------------------------------------

\* No response sent yet.
NoResp == [status |-> 0, json |-> FALSE, success |-> "none", error |-> "",
           message |-> "", extra |-> "", filename |-> <<>>, url |-> <<>>,
           size |-> 0, body |-> EmptyContent]

\* res.status(status).json({success: false, error, message?, <extra>?})
FailResp(status, error, message, extra) ==
    [NoResp EXCEPT !.status = status, !.json = TRUE, !.success = "false",
                   !.error = error, !.message = message, !.extra = extra]

UploadsUrl == <<"/", "u", "p", "l", "o", "a", "d", "s", "/">>

\* res.json({success: true, filename, message, url, size})
SuccessResp(filename, size) ==
    [NoResp EXCEPT !.status = 200, !.json = TRUE, !.success = "true",
                   !.message = "Screenshot uploaded successfully",
                   !.filename = filename, !.url = UploadsUrl \o filename,
                   !.size = size]

\* The catch block of both upload handlers.
CatchResp(message) == FailResp(500, "Internal server error", message, "")

\* ------------------------------------------------------------------------
\* Multipart upload: multer
\* ------------------------------------------------------------------------

FileSizeLimit == 10 * 1024 * 1024

ImageSlash == <<"i", "m", "a", "g", "e", "/">>

\* fileFilter: whether the file part is accepted.
FileFilter(mimetype) == StartsWith(mimetype, ImageSlash)

\* storage.filename: `screenshot-${timestamp}.png`
GeneratedFilename(timestamp) ==
    <<"s", "c", "r", "e", "e", "n", "s", "h", "o", "t", "-">>
        \o Decimal(timestamp) \o <<".", "p", "n", "g">>

\* The error object handed to next(err): none raised, a multer.MulterError
\* with its code, or another Error.
NoError == [raised |-> FALSE, multer |-> FALSE, code |-> "", message |-> ""]

MulterError(code, message) ==
    [raised |-> TRUE, multer |-> TRUE, code |-> code, message |-> message]

PlainError(message) ==
    [raised |-> TRUE, multer |-> FALSE, code |-> "", message |-> message]

\* req.file
NoFile == [present |-> FALSE, filename |-> <<>>, size |-> 0]

\* What upload.single('screenshot') does with a request body: the error it
\* raises, req.file, and the file system it leaves.  `part` is the body: no
\* file part, a malformed body, or one file part (field, mimetype, content).
\* An accepted file is streamed to uploadsDir/<generated name>; a file over
\* the limit is cut at the limit and the written file is unlinked again.
MulterSingle(fsys, timestamp, part) ==
    LET keep(e) == [err |-> e, file |-> NoFile, fs |-> fsys, wrote |-> FALSE,
                    path |-> <<>>, data |-> EmptyContent]
    IN  IF part.kind = "malformed"
        THEN keep(PlainError("Unexpected end of multipart data"))
        ELSE IF part.kind = "nofile" THEN keep(NoError)
        ELSE IF part.field # "screenshot"
        THEN keep(MulterError("LIMIT_UNEXPECTED_FILE", "Unexpected field"))
        ELSE IF ~FileFilter(part.mimetype)
        THEN keep(PlainError("Only image files are allowed"))
        ELSE LET filename == GeneratedFilename(timestamp)
                 path     == PathJoin(uploadsDir, filename)
             IN  IF ByteLength(part.content) > FileSizeLimit
                 THEN [err |-> MulterError("LIMIT_FILE_SIZE", "File too large"),
                       file |-> NoFile,
                       fs |-> Unlink(WriteFile(fsys, path,
                                  Truncate(part.content, FileSizeLimit)), path),
                       wrote |-> FALSE, path |-> <<>>, data |-> EmptyContent]
                 ELSE [err |-> NoError,
                       file |-> [present |-> TRUE, filename |-> filename,
                                 size |-> ByteLength(part.content)],
                       fs |-> WriteFile(fsys, path, part.content),
                       wrote |-> TRUE, path |-> path, data |-> part.content]

\* The handler without its `!req.file` check: reading req.file.filename throws
\* and the catch block answers.
ScreenshotResponse_Unchecked(file) ==
    IF ~file.present
    THEN CatchResp("Cannot read properties of undefined (reading 'filename')")
    ELSE SuccessResp(file.filename, file.size)

\* The route handler of POST /api/screenshot, given req.file.
ScreenshotResponse(file) ==
    IF ~file.present THEN FailResp(400, "No file received", "", "received")
    ELSE SuccessResp(file.filename, file.size)

\* The middleware without its LIMIT_FILE_SIZE branch.
ErrorResponse_Always500(error) ==
    FailResp(500, "Internal server error", error.message, "")

\* The middleware answering errors that are not multer's with the bare
\* message, outside the envelope.
ErrorResponse_BareMessage(error) ==
    IF error.multer /\ error.code = "LIMIT_FILE_SIZE"
    THEN FailResp(400, "File too large", "File size should be less than 10MB", "")
    ELSE [NoResp EXCEPT !.status = 500, !.json = TRUE,
                        !.message = error.message]

\* The error handling middleware, given the error passed to next(err).
ErrorResponse(error) ==
    IF error.multer /\ error.code = "LIMIT_FILE_SIZE"
    THEN FailResp(400, "File too large", "File size should be less than 10MB", "")
    ELSE FailResp(500, "Internal server error", error.message, "")

\* The 404 handler.
NotFoundResponse ==
    FailResp(404, "Endpoint not found", "", "available_endpoints")

\* ------------------------------------------------------------------------
\* Base64 upload
\* ------------------------------------------------------------------------

\* A JSON value of the request body: absent, a string, or a (non-zero) number.
JUndefined == [t |-> "undefined", s |-> <<>>]

JString(s) == [t |-> "string", s |-> s]

JNumber == [t |-> "number", s |-> <<>>]

\* !v
Falsy(v) == v.t = "undefined" \/ (v.t = "string" /\ v.s = <<>>)

\* The route handler of POST /api/screenshot/base64 on body {image, filename}:
\* the response and the file system it leaves.
Base64Upload(fsys, timestamp, image, filename) ==
    LET keep(r) == [resp |-> r, fs |-> fsys, wrote |-> FALSE, path |-> <<>>,
                    data |-> EmptyContent]
    IN  IF Falsy(image)
        THEN keep(FailResp(400, "No image data received", "", ""))
        ELSE IF image.t # "string"
        THEN keep(CatchResp("image.replace is not a function"))
        ELSE IF ~Falsy(filename) /\ filename.t # "string"
        THEN keep(CatchResp("The \"path\" argument must be of type string"))
        ELSE LET base64Data    == StripDataUrl(image.s)
                 finalFilename == IF Falsy(filename)
                                  THEN GeneratedFilename(timestamp)
                                  ELSE filename.s
                 filepath      == PathJoin(uploadsDir, finalFilename)
                 data          == Content(Base64Decode(base64Data), 0)
                 after         == WriteFile(fsys, filepath, data)
             IN  IF WriteError(filepath) # ""
                 THEN keep(CatchResp(WriteError(filepath)))
                 ELSE [resp |-> SuccessResp(finalFilename,
                                            ByteLength(after[filepath])),
                       fs |-> after, wrote |-> TRUE, path |-> filepath,
                       data |-> data]

\* ------------------------------------------------------------------------
\* Retrieval: express.static(uploadsDir) mounted at /uploads
\* ------------------------------------------------------------------------

\* The file express.static sends for a url, if any.  A path with a '..'
\* segment is refused and a dotfile is ignored; both, like a missing file,
\* fall through to the next middleware.
ServeStatic(fsys, url) ==
    LET miss == [found |-> FALSE, body |-> EmptyContent]
    IN  IF ~StartsWith(url, UploadsUrl) THEN miss
        ELSE LET rest == DropFirst(url, Len(UploadsUrl))
                 segs == Split(rest, "/")
                 path == PathJoin(uploadsDir, rest)
             IN  IF \E i \in 1..Len(segs) : segs[i] # <<>> /\ Head(segs[i]) = "."
                 THEN miss
                 ELSE IF path \in DOMAIN fsys
                      THEN [found |-> TRUE, body |-> fsys[path]]
                      ELSE miss

\* ------------------------------------------------------------------------
\* Requests the clients send
\* ------------------------------------------------------------------------

Reqs == 1..MaxReqs

NoPart == [kind |-> "nofile", field |-> "", mimetype |-> <<>>,
           content |-> EmptyContent]

MalformedPart == [NoPart EXCEPT !.kind = "malformed"]

FilePart(field, mimetype, content) ==
    [kind |-> "file", field |-> field, mimetype |-> mimetype,
     content |-> content]

ImagePng == <<"i", "m", "a", "g", "e", "/", "p", "n", "g">>

TextPlain == <<"t", "e", "x", "t", "/", "p", "l", "a", "i", "n">>

\* File contents of 1 byte, of exactly the size limit and of one byte more.
SmallFile == Content(<<1>>, 0)

AtLimitFile == Content(<<3>>, FileSizeLimit - 1)

OverLimitFile == Content(<<4>>, FileSizeLimit)

Parts ==
    {NoPart, MalformedPart,
     FilePart("screenshot", ImagePng, SmallFile),
     FilePart("screenshot", ImagePng, AtLimitFile),
     FilePart("screenshot", ImagePng, OverLimitFile),
     FilePart("file", ImagePng, SmallFile),
     FilePart("screenshot", TextPlain, SmallFile),
     FilePart("screenshot", TextPlain, OverLimitFile)}

\* `data:image/<type>;base64,<payload>`
DataUrl(type, payload) == DataImage \o type \o Base64Comma \o payload

Png == <<"p", "n", "g">>

SvgXml == <<"s", "v", "g", "+", "x", "m", "l">>

\* Base64 payloads: "ABC", "B" (padded) and "BC" followed by 0xFF 0xFF in
\* the url-safe alphabet, unpadded.
Payloads == {<<"Q", "U", "J", "D">>, <<"Q", "g", "=", "=">>,
             <<"Q", "k", "P", "_", "_", "w">>}

ImageTypes == {Png, SvgXml}

ABC == <<"Q", "U", "J", "D">>

Images == {JUndefined, JNumber, JString(DataUrl(SvgXml, ABC))}
          \cup {JString(p) : p \in Payloads}
          \cup {JString(DataUrl(Png, p)) : p \in Payloads}

APng == <<"a", ".", "p", "n", "g">>

\* Client-supplied filenames: a number, a plain name, a name that climbs out
\* of the directory, a name in a missing directory, a dotfile, and a name
\* of the generated form.
Filenames ==
    {JNumber,
     JString(APng),
     JString(<<".", ".", "/">> \o APng),
     JString(<<"d", "/">> \o APng),
     JString(<<".", "a">>),
     JString(GeneratedFilename(0))}

\* The bodies of POST /api/screenshot/base64: every image without a
\* filename, and one image with every filename.
Base64Bodies ==
    {<<i, JUndefined>> : i \in Images}
    \cup {<<JString(ABC), f>> : f \in Filenames}

\* The urls of GET /uploads/...
Urls == {UploadsUrl \o APng, UploadsUrl \o GeneratedFilename(0)}

\* A request that has not arrived.
NoReq == [route |-> "", part |-> NoPart, image |-> JUndefined,
          filename |-> JUndefined, url |-> <<>>]

NoStore == [wrote |-> FALSE, path |-> <<>>, data |-> EmptyContent]

\* ------------------------------------------------------------------------
\* State
\* ------------------------------------------------------------------------

VARIABLES
    now,      \* Date.now()
    fs,       \* the files: path -> content
    pc,       \* per request: "idle", "next" (next() called, handler pending), "done"
    req,      \* per request: what the client sent
    reqfile,  \* per request: req.file
    err,      \* per request: the error passed to next(err)
    resp,     \* per request: the response sent
    nresp,    \* per request: how many responses were sent
    stored,   \* per request: the file it stored (path and bytes)
    dirty     \* per request: whether a step of it changed the file system

vars == <<now, fs, pc, req, reqfile, err, resp, nresp, stored, dirty>>

Init ==
    /\ now = 0
    /\ fs = [p \in {} |-> EmptyContent]
    /\ pc = [r \in Reqs |-> "idle"]
    /\ req = [r \in Reqs |-> NoReq]
    /\ reqfile = [r \in Reqs |-> NoFile]
    /\ err = [r \in Reqs |-> NoError]
    /\ resp = [r \in Reqs |-> NoResp]
    /\ nresp = [r \in Reqs |-> 0]
    /\ stored = [r \in Reqs |-> NoStore]
    /\ dirty = [r \in Reqs |-> FALSE]

\* Requests are numbered in the order they arrive.
Arrives(r) == /\ pc[r] = "idle"
              /\ IF r = 1 THEN TRUE ELSE pc[r - 1] # "idle"

\* res.json(...) / res.send(...): the response goes out and the request ends.
Respond(r, response) ==
    /\ resp' = [resp EXCEPT ![r] = response]
    /\ nresp' = [nresp EXCEPT ![r] = @ + 1]
    /\ pc' = [pc EXCEPT ![r] = "done"]

\* The clock advances.
Tick ==
    /\ now < MaxTime
    /\ now' = now + 1
    /\ UNCHANGED <<fs, pc, req, reqfile, err, resp, nresp, stored, dirty>>

\* POST /api/screenshot arrives and upload.single('screenshot') runs to its
\* call of next().
PostScreenshot(r, part) ==
    /\ Arrives(r)
    /\ LET m == MulterSingle(fs, now, part)
       IN  /\ fs' = m.fs
           /\ reqfile' = [reqfile EXCEPT ![r] = m.file]
           /\ err' = [err EXCEPT ![r] = m.err]
           /\ stored' = [stored EXCEPT ![r] =
                            [wrote |-> m.wrote, path |-> m.path, data |-> m.data]]
           /\ dirty' = [dirty EXCEPT ![r] = m.fs # fs]
    /\ req' = [req EXCEPT ![r] = [NoReq EXCEPT !.route = "screenshot",
                                               !.part = part]]
    /\ pc' = [pc EXCEPT ![r] = "next"]
    /\ UNCHANGED <<now, resp, nresp>>

\* The route handler of POST /api/screenshot.
ScreenshotHandler(r) ==
    /\ pc[r] = "next"
    /\ req[r].route = "screenshot"
    /\ ~err[r].raised
    /\ Respond(r, ScreenshotResponse(reqfile[r]))
    /\ UNCHANGED <<now, fs, req, reqfile, err, stored, dirty>>

\* express.json rejects the body of POST /api/screenshot/base64 (not JSON, or
\* over its limit) and calls next(err).
JsonBodyError(r) ==
    /\ Arrives(r)
    /\ req' = [req EXCEPT ![r] = [NoReq EXCEPT !.route = "base64"]]
    /\ err' = [err EXCEPT ![r] = PlainError("Unexpected token in JSON")]
    /\ pc' = [pc EXCEPT ![r] = "next"]
    /\ UNCHANGED <<now, fs, reqfile, resp, nresp, stored, dirty>>

\* The error handling middleware.
ErrorMiddleware(r) ==
    /\ pc[r] = "next"
    /\ err[r].raised
    /\ Respond(r, ErrorResponse(err[r]))
    /\ UNCHANGED <<now, fs, req, reqfile, err, stored, dirty>>

\* POST /api/screenshot/base64 with a parsed body: the route handler runs
\* from start to response without yielding.
PostBase64(r, image, filename) ==
    /\ Arrives(r)
    /\ LET b == Base64Upload(fs, now, image, filename)
       IN  /\ fs' = b.fs
           /\ stored' = [stored EXCEPT ![r] =
                            [wrote |-> b.wrote, path |-> b.path, data |-> b.data]]
           /\ dirty' = [dirty EXCEPT ![r] = b.fs # fs]
           /\ Respond(r, b.resp)
    /\ req' = [req EXCEPT ![r] = [NoReq EXCEPT !.route = "base64",
                                               !.image = image,
                                               !.filename = filename]]
    /\ UNCHANGED <<now, reqfile, err>>

\* GET /uploads/...: express.static sends the file, or falls through to the
\* 404 handler.
GetUploads(r, url) ==
    /\ Arrives(r)
    /\ LET s == ServeStatic(fs, url)
       IN  Respond(r, IF s.found
                      THEN [NoResp EXCEPT !.status = 200, !.body = s.body]
                      ELSE NotFoundResponse)
    /\ req' = [req EXCEPT ![r] = [NoReq EXCEPT !.route = "uploads", !.url = url]]
    /\ UNCHANGED <<now, fs, reqfile, err, stored, dirty>>

\* GET / and GET /api/health.
GetHealth(r, route) ==
    /\ Arrives(r)
    /\ Respond(r, [NoResp EXCEPT !.status = 200, !.json = TRUE])
    /\ req' = [req EXCEPT ![r] = [NoReq EXCEPT !.route = route]]
    /\ UNCHANGED <<now, fs, reqfile, err, stored, dirty>>

\* Any other route: the 404 handler.
Unmatched(r) ==
    /\ Arrives(r)
    /\ Respond(r, NotFoundResponse)
    /\ req' = [req EXCEPT ![r] = [NoReq EXCEPT !.route = "other"]]
    /\ UNCHANGED <<now, fs, reqfile, err, stored, dirty>>

Next ==
    \/ Tick
    \/ \E r \in Reqs, part \in Parts : PostScreenshot(r, part)
    \/ \E r \in Reqs : ScreenshotHandler(r)
    \/ \E r \in Reqs : JsonBodyError(r)
    \/ \E r \in Reqs : ErrorMiddleware(r)
    \/ \E r \in Reqs, b \in Base64Bodies : PostBase64(r, b[1], b[2])
    \/ \E r \in Reqs, url \in Urls : GetUploads(r, url)
    \/ \E r \in Reqs, route \in {"root", "health"} : GetHealth(r, route)
    \/ \E r \in Reqs : Unmatched(r)

Spec == Init /\ [][Next]_vars

\* ------------------------------------------------------------------------
\* Properties
\* ------------------------------------------------------------------------

Done(r) == pc[r] = "done"

Succeeded(r) == Done(r) /\ resp[r].success = "true"

Failed(r) == Done(r) /\ resp[r].status # 200

\* The body carries one file part in the `screenshot` field with an image
\* MIME type: the part multer accepts for storage.
AcceptedPart(part) ==
    /\ part.kind = "file"
    /\ part.field = "screenshot"
    /\ StartsWith(part.mimetype, ImageSlash)

Oversized(part) ==
    part.kind = "file" /\ ByteLength(part.content) > FileSizeLimit

\* C1: for every upload that returned success=true with a url, a GET of that
\* url returns the bytes the upload stored, whatever requests came between.
RetrievalReturnsUpload ==
    \A r \in Reqs :
        Succeeded(r) =>
            LET s == ServeStatic(fs, resp[r].url)
            IN  s.found /\ s.body = stored[r].data

\* C2: a request that ends in a response with success=false (any non-200
\* response) has changed nothing in the file system.
FailureLeavesNoTrace ==
    \A r \in Reqs : Failed(r) => ~dirty[r]

\* C3: once an upload has stored a file under a name, no step of any request
\* changes the content under that name or removes it.
UploadImmutable ==
    [][\A r \in Reqs :
          (stored[r].wrote /\ stored[r].path \in DOMAIN fs) =>
              /\ stored[r].path \in DOMAIN fs'
              /\ fs'[stored[r].path] = fs[stored[r].path]]_vars

\* C4: when a success response is sent, its `size` is the byte length of the
\* file then stored under the returned filename.
SizeIsStoredLength ==
    [][\A r \in Reqs :
          (resp[r].status = 0 /\ resp'[r].success = "true") =>
              LET path == PathJoin(uploadsDir, resp'[r].filename)
              IN  /\ path \in DOMAIN fs'
                  /\ resp'[r].size = ByteLength(fs'[path])]_vars

\* C5: every request ends in exactly one response; a failing one, whichever
\* stage raised the failure, gets a JSON body with success=false and an
\* error, and a request waiting after next() always has a handler to run.
ErrorsBecomeEnvelope ==
    \A r \in Reqs :
        /\ nresp[r] <= 1
        /\ Done(r) => nresp[r] = 1
        /\ Done(r) => resp[r].status \in {200, 400, 404, 500}
        /\ Failed(r) =>
               /\ resp[r].json
               /\ resp[r].success = "false"
               /\ resp[r].error # ""
        /\ (Done(r) /\ err[r].raised) => Failed(r)
        /\ pc[r] = "next" => ENABLED (ScreenshotHandler(r) \/ ErrorMiddleware(r))

\* C5 witness: errors raised by multer, by the body parser and inside a
\* route handler have each been answered.
ErrorsAnswered ==
    /\ \E r \in Reqs : Failed(r) /\ err[r].raised /\ resp[r].status = 500
    /\ \E r \in Reqs : Failed(r) /\ ~err[r].raised /\ resp[r].status = 500

AnyPrefixStripped ==
    \A r \in Reqs : \A t \in ImageTypes, p \in Payloads :
        (/\ Done(r)
         /\ stored[r].wrote
         /\ req[r].route = "base64"
         /\ req[r].image = JString(DataUrl(t, p)))
        => stored[r].data.bytes = Base64Decode(p)

\* C8: a base64 upload of `data:image/png;base64,` followed by a payload
\* stores the same bytes as a base64 upload of the payload alone.
PngPrefixSameBytes ==
    \A r1, r2 \in Reqs :
        (/\ Done(r1) /\ stored[r1].wrote /\ req[r1].route = "base64"
         /\ Done(r2) /\ stored[r2].wrote /\ req[r2].route = "base64"
         /\ req[r2].image.t = "string"
         /\ req[r2].image.s \in Payloads
         /\ req[r1].image = JString(DataUrl(Png, req[r2].image.s)))
        => stored[r1].data = stored[r2].data

\* C8 witness: both uploads of one payload, with and without the png
\* prefix, have stored a non-empty file.
PngPairStored ==
    \E r1, r2 \in Reqs :
        /\ Done(r1) /\ stored[r1].wrote /\ req[r1].route = "base64"
        /\ Done(r2) /\ stored[r2].wrote /\ req[r2].route = "base64"
        /\ req[r2].image.t = "string"
        /\ req[r2].image.s \in Payloads
        /\ req[r1].image = JString(DataUrl(Png, req[r2].image.s))
        /\ ByteLength(stored[r1].data) > 0

\* C9 as stated: a multipart upload whose file exceeds 10 MiB gets HTTP 400
\* with the message "File size should be less than 10MB".
OversizeGives400 ==
    \A r \in Reqs :
        (Done(r) /\ req[r].route = "screenshot" /\ Oversized(req[r].part)) =>
            /\ resp[r].status = 400
            /\ resp[r].message = "File size should be less than 10MB"

\* C9 amended: a multipart upload whose file passes the filter (an image MIME
\* type in the `screenshot` field) and exceeds 10 MiB gets HTTP 400 with the
\* message "File size should be less than 10MB" and never a success
\* response; every other error that reaches the error middleware, a rejected
\* MIME type included, gets HTTP 500.
AcceptedOversizeGives400 ==
    \A r \in Reqs :
        /\ (req[r].route = "screenshot"
            /\ AcceptedPart(req[r].part) /\ Oversized(req[r].part)) =>
               /\ resp[r].success # "true"
               /\ err[r].multer /\ err[r].code = "LIMIT_FILE_SIZE"
               /\ Done(r) =>
                      /\ resp[r].status = 400
                      /\ resp[r].success = "false"
                      /\ resp[r].message = "File size should be less than 10MB"
        /\ (Done(r) /\ err[r].raised
            /\ ~(err[r].multer /\ err[r].code = "LIMIT_FILE_SIZE")) =>
               resp[r].status = 500
        /\ (Done(r) /\ req[r].route = "screenshot" /\ req[r].part.kind = "file"
            /\ req[r].part.field = "screenshot"
            /\ ~StartsWith(req[r].part.mimetype, ImageSlash)) =>
               resp[r].status = 500

\* C9 witness: an accepted file over the limit and a file of a rejected MIME
\* type have both been answered.
OversizeAndRejectedAnswered ==
    /\ \E r \in Reqs :
           /\ Done(r) /\ req[r].route = "screenshot"
           /\ AcceptedPart(req[r].part) /\ Oversized(req[r].part)
    /\ \E r \in Reqs :
           /\ Done(r) /\ req[r].route = "screenshot"
           /\ req[r].part.kind = "file"
           /\ ~StartsWith(req[r].part.mimetype, ImageSlash)

\* C10: every file a request writes is a direct child of the uploads
\* directory, whatever filename the client supplied.
WritesStayInUploads ==
    \A r \in Reqs : stored[r].wrote => InUploadsDir(stored[r].path)

====
